---- MODULE Spec2Model ----
(***************************************************************************)
(* CiSwift.describe_environment (fuel_test/ciswift.py), statement by       *)
(* statement.  A state is the module-level settings lists, the attributes  *)
(* of self, the frame of one call of describe_environment (its locals and  *)
(* the line about to run), the Network objects allocated so far and the    *)
(* Environments already returned to the caller.                            *)
(***************************************************************************)
EXTENDS Integers, Sequences, FiniteSets, TLC

(* ---- bounds of the model -------------------------------------------- *)
MaxKeystones == 1
MaxStorages == 2
MaxProxies == 1
MaxBuilds == 2

\* The names a settings list may hold.  Names are opaque strings; the sets overlap
\* so that a name can occur twice in one list, in two lists, or be 'master'.
KeystoneNames == {"keystone-1", "master"}
StorageNames == {"storage-1", "storage-2", "keystone-1"}
ProxyNames == {"storage-1", "master"}
EnvNames == {"ciswift", "recipes"}

SeqsUpTo(S, n) == UNION {[1..k -> S] : k \in 0..n}

(* ---- state ----------------------------------------------------------- *)
VARIABLES
    settings,          \* settings.keystones, settings.storages, settings.proxies
    environment_name,  \* self.environment_name
    pc,                \* "idle", or the line of describe_environment about to run
    environment,       \* local: the Environment being built
    internal,          \* local: reference to a Network (0 = not yet bound)
    private,           \* local
    public,            \* local
    master,            \* local: the Node returned for 'master'
    client,            \* local: the Node returned for the current name
    node_name,         \* local: the loop variable
    pos,               \* position of the iterator of each for loop
    heap,              \* the Network objects created so far; a reference is an index
    calls,             \* the describe_node calls of the current build, in order
    results            \* the Environments returned so far, in order

vars == <<settings, environment_name, pc, environment, internal, private, public,
          master, client, node_name, pos, heap, calls, results>>

locals == <<environment, internal, private, public, master, client, node_name, pos>>

(* ---- devops.model and Ci collaborators -------------------------------- *)
NoEnv == [name |-> "", networks |-> <<>>, nodes |-> <<>>]
NoNode == [name |-> "", interfaces |-> <<>>]
NoPos == [keystones |-> 0, storages |-> 0, proxies |-> 0]

Environment(name) == [name |-> name, networks |-> <<>>, nodes |-> <<>>]

Network(name, dhcp_server) == [name |-> name, dhcp_server |-> dhcp_server]

\* Ci.describe_node(name, networks) -> Node: one interface per network passed.
describe_node(name, networks) ==
    [name |-> name,
     interfaces |-> [i \in 1..Len(networks) |-> [network |-> networks[i]]]]

(* ---- initial state ---------------------------------------------------- *)
Init ==
    /\ settings \in [keystones : SeqsUpTo(KeystoneNames, MaxKeystones),
                     storages : SeqsUpTo(StorageNames, MaxStorages),
                     proxies : SeqsUpTo(ProxyNames, MaxProxies)]
    /\ environment_name \in EnvNames
    /\ pc = "idle"
    /\ environment = NoEnv
    /\ internal = 0 /\ private = 0 /\ public = 0
    /\ master = NoNode /\ client = NoNode
    /\ node_name = ""
    /\ pos = NoPos
    /\ heap = <<>>
    /\ calls = <<>>
    /\ results = <<>>

(* ---- the caller invokes self.describe_environment() ------------------- *)
Call ==
    /\ pc = "idle"
    /\ Len(results) < MaxBuilds
    /\ pc' = "L7"
    /\ calls' = <<>>
    /\ UNCHANGED <<settings, environment_name, locals, heap, results>>

(* ---- lines 7-13: the environment and its three networks --------------- *)
NewEnvironment ==
    /\ pc = "L7"
    /\ environment' = Environment(environment_name)
    /\ pc' = "L8"
    /\ UNCHANGED <<settings, environment_name, internal, private, public, master,
                   client, node_name, pos, heap, calls, results>>

NewInternal ==
    /\ pc = "L8"
    /\ heap' = Append(heap, Network("internal", TRUE))
    /\ internal' = Len(heap) + 1
    /\ pc' = "L9"
    /\ UNCHANGED <<settings, environment_name, environment, private, public, master,
                   client, node_name, pos, calls, results>>

AppendInternal ==
    /\ pc = "L9"
    /\ environment' = [environment EXCEPT !.networks = Append(@, internal)]
    /\ pc' = "L10"
    /\ UNCHANGED <<settings, environment_name, internal, private, public, master,
                   client, node_name, pos, heap, calls, results>>

\* Variant: the private network is created with the DHCP server on.
NewPrivateDhcpOn ==
    /\ pc = "L10"
    /\ heap' = Append(heap, Network("private", TRUE))
    /\ private' = Len(heap) + 1
    /\ pc' = "L11"
    /\ UNCHANGED <<settings, environment_name, environment, internal, public, master,
                   client, node_name, pos, calls, results>>

NewPrivate ==
    /\ pc = "L10"
    /\ heap' = Append(heap, Network("private", FALSE))
    /\ private' = Len(heap) + 1
    /\ pc' = "L11"
    /\ UNCHANGED <<settings, environment_name, environment, internal, public, master,
                   client, node_name, pos, calls, results>>

AppendPrivate ==
    /\ pc = "L11"
    /\ environment' = [environment EXCEPT !.networks = Append(@, private)]
    /\ pc' = "L12"
    /\ UNCHANGED <<settings, environment_name, internal, private, public, master,
                   client, node_name, pos, heap, calls, results>>

NewPublic ==
    /\ pc = "L12"
    /\ heap' = Append(heap, Network("public", TRUE))
    /\ public' = Len(heap) + 1
    /\ pc' = "L13"
    /\ UNCHANGED <<settings, environment_name, environment, internal, private, master,
                   client, node_name, pos, calls, results>>

AppendPublic ==
    /\ pc = "L13"
    /\ environment' = [environment EXCEPT !.networks = Append(@, public)]
    /\ pc' = "L14"
    /\ UNCHANGED <<settings, environment_name, internal, private, public, master,
                   client, node_name, pos, heap, calls, results>>

(* ---- lines 14-15: the master node ------------------------------------- *)
DescribeMaster ==
    /\ pc = "L14"
    /\ master' = describe_node("master", <<internal, private, public>>)
    /\ calls' = Append(calls, [name |-> "master",
                               networks |-> <<internal, private, public>>])
    /\ pc' = "L15"
    /\ UNCHANGED <<settings, environment_name, environment, internal, private, public,
                   client, node_name, pos, heap, results>>

\* Variant: the master node is described but never appended.
AppendMasterDropped ==
    /\ pc = "L15"
    /\ pc' = "L16"
    /\ UNCHANGED <<settings, environment_name, environment, internal, private, public,
                   master, client, node_name, pos, heap, calls, results>>

AppendMaster ==
    /\ pc = "L15"
    /\ environment' = [environment EXCEPT !.nodes = Append(@, master)]
    /\ pc' = "L16"
    /\ UNCHANGED <<settings, environment_name, internal, private, public, master,
                   client, node_name, pos, heap, calls, results>>

(* ---- lines 16-18: for node_name in keystones -------------------------- *)
\* Variant: the loop consumes the settings list (pops its head) as it iterates.
ForKeystonesPopping ==
    /\ pc = "L16"
    /\ IF settings.keystones # <<>>
         THEN /\ node_name' = Head(settings.keystones)
              /\ settings' = [settings EXCEPT !.keystones = Tail(@)]
              /\ pos' = [pos EXCEPT !.keystones = @ + 1]
              /\ pc' = "L17"
         ELSE /\ pc' = "L19"
              /\ UNCHANGED <<node_name, pos, settings>>
    /\ UNCHANGED <<environment_name, environment, internal, private, public,
                   master, client, heap, calls, results>>

ForKeystones ==
    /\ pc = "L16"
    /\ IF pos.keystones < Len(settings.keystones)
         THEN /\ node_name' = settings.keystones[pos.keystones + 1]
              /\ pos' = [pos EXCEPT !.keystones = @ + 1]
              /\ pc' = "L17"
         ELSE /\ pc' = "L19"
              /\ UNCHANGED <<node_name, pos>>
    /\ UNCHANGED <<settings, environment_name, environment, internal, private, public,
                   master, client, heap, calls, results>>

\* Variant: the keystone node is attached to three freshly created networks.
DescribeKeystoneFreshNetworks ==
    /\ pc = "L17"
    /\ heap' = heap \o <<Network("internal", TRUE), Network("private", FALSE),
                         Network("public", TRUE)>>
    /\ client' = describe_node(node_name,
                               <<Len(heap) + 1, Len(heap) + 2, Len(heap) + 3>>)
    /\ calls' = Append(calls, [name |-> node_name,
                               networks |-> <<Len(heap) + 1, Len(heap) + 2,
                                              Len(heap) + 3>>])
    /\ pc' = "L18"
    /\ UNCHANGED <<settings, environment_name, environment, internal, private, public,
                   master, node_name, pos, results>>

DescribeKeystone ==
    /\ pc = "L17"
    /\ client' = describe_node(node_name, <<internal, private, public>>)
    /\ calls' = Append(calls, [name |-> node_name,
                               networks |-> <<internal, private, public>>])
    /\ pc' = "L18"
    /\ UNCHANGED <<settings, environment_name, environment, internal, private, public,
                   master, node_name, pos, heap, results>>

\* Variant: the keystone node is inserted at the front of environment.nodes.
AppendKeystoneAtFront ==
    /\ pc = "L18"
    /\ environment' = [environment EXCEPT !.nodes = <<client>> \o @]
    /\ pc' = "L16"
    /\ UNCHANGED <<settings, environment_name, internal, private, public, master,
                   client, node_name, pos, heap, calls, results>>

AppendKeystone ==
    /\ pc = "L18"
    /\ environment' = [environment EXCEPT !.nodes = Append(@, client)]
    /\ pc' = "L16"
    /\ UNCHANGED <<settings, environment_name, internal, private, public, master,
                   client, node_name, pos, heap, calls, results>>

(* ---- lines 19-21: for node_name in storages --------------------------- *)
\* Variant: the storages list is traversed from its last entry to its first.
ForStoragesReversed ==
    /\ pc = "L19"
    /\ IF pos.storages < Len(settings.storages)
         THEN /\ node_name' = settings.storages[Len(settings.storages) - pos.storages]
              /\ pos' = [pos EXCEPT !.storages = @ + 1]
              /\ pc' = "L20"
         ELSE /\ pc' = "L22"
              /\ UNCHANGED <<node_name, pos>>
    /\ UNCHANGED <<settings, environment_name, environment, internal, private, public,
                   master, client, heap, calls, results>>

ForStorages ==
    /\ pc = "L19"
    /\ IF pos.storages < Len(settings.storages)
         THEN /\ node_name' = settings.storages[pos.storages + 1]
              /\ pos' = [pos EXCEPT !.storages = @ + 1]
              /\ pc' = "L20"
         ELSE /\ pc' = "L22"
              /\ UNCHANGED <<node_name, pos>>
    /\ UNCHANGED <<settings, environment_name, environment, internal, private, public,
                   master, client, heap, calls, results>>

DescribeStorage ==
    /\ pc = "L20"
    /\ client' = describe_node(node_name, <<internal, private, public>>)
    /\ calls' = Append(calls, [name |-> node_name,
                               networks |-> <<internal, private, public>>])
    /\ pc' = "L21"
    /\ UNCHANGED <<settings, environment_name, environment, internal, private, public,
                   master, node_name, pos, heap, results>>

\* Variant: a storage node whose name is already among the nodes is not appended.
AppendStorageUnique ==
    /\ pc = "L21"
    /\ environment' =
         IF \E i \in 1..Len(environment.nodes) : environment.nodes[i].name = client.name
           THEN environment
           ELSE [environment EXCEPT !.nodes = Append(@, client)]
    /\ pc' = "L19"
    /\ UNCHANGED <<settings, environment_name, internal, private, public, master,
                   client, node_name, pos, heap, calls, results>>

AppendStorage ==
    /\ pc = "L21"
    /\ environment' = [environment EXCEPT !.nodes = Append(@, client)]
    /\ pc' = "L19"
    /\ UNCHANGED <<settings, environment_name, internal, private, public, master,
                   client, node_name, pos, heap, calls, results>>

(* ---- lines 22-24: for node_name in proxies ---------------------------- *)
\* Variant: the loop starts at the second entry of the proxies list.
ForProxiesSkipFirst ==
    /\ pc = "L22"
    /\ IF pos.proxies + 1 < Len(settings.proxies)
         THEN /\ node_name' = settings.proxies[pos.proxies + 2]
              /\ pos' = [pos EXCEPT !.proxies = @ + 1]
              /\ pc' = "L23"
         ELSE /\ pc' = "L25"
              /\ UNCHANGED <<node_name, pos>>
    /\ UNCHANGED <<settings, environment_name, environment, internal, private, public,
                   master, client, heap, calls, results>>

ForProxies ==
    /\ pc = "L22"
    /\ IF pos.proxies < Len(settings.proxies)
         THEN /\ node_name' = settings.proxies[pos.proxies + 1]
              /\ pos' = [pos EXCEPT !.proxies = @ + 1]
              /\ pc' = "L23"
         ELSE /\ pc' = "L25"
              /\ UNCHANGED <<node_name, pos>>
    /\ UNCHANGED <<settings, environment_name, environment, internal, private, public,
                   master, client, heap, calls, results>>

\* Variant: a proxy node is attached to the internal and public networks only.
DescribeProxyTwoNetworks ==
    /\ pc = "L23"
    /\ client' = describe_node(node_name, <<internal, public>>)
    /\ calls' = Append(calls, [name |-> node_name, networks |-> <<internal, public>>])
    /\ pc' = "L24"
    /\ UNCHANGED <<settings, environment_name, environment, internal, private, public,
                   master, node_name, pos, heap, results>>

DescribeProxy ==
    /\ pc = "L23"
    /\ client' = describe_node(node_name, <<internal, private, public>>)
    /\ calls' = Append(calls, [name |-> node_name,
                               networks |-> <<internal, private, public>>])
    /\ pc' = "L24"
    /\ UNCHANGED <<settings, environment_name, environment, internal, private, public,
                   master, node_name, pos, heap, results>>

AppendProxy ==
    /\ pc = "L24"
    /\ environment' = [environment EXCEPT !.nodes = Append(@, client)]
    /\ pc' = "L22"
    /\ UNCHANGED <<settings, environment_name, internal, private, public, master,
                   client, node_name, pos, heap, calls, results>>

(* ---- line 25: return environment (the frame is discarded) ------------- *)
\* Variant: the loop iterators outlive the call (lists that can be consumed once).
ReturnKeepsIterators ==
    /\ pc = "L25"
    /\ results' = Append(results, environment)
    /\ pc' = "idle"
    /\ environment' = NoEnv
    /\ internal' = 0 /\ private' = 0 /\ public' = 0
    /\ master' = NoNode /\ client' = NoNode
    /\ node_name' = ""
    /\ UNCHANGED <<settings, environment_name, heap, calls, pos>>

Return ==
    /\ pc = "L25"
    /\ results' = Append(results, environment)
    /\ pc' = "idle"
    /\ environment' = NoEnv
    /\ internal' = 0 /\ private' = 0 /\ public' = 0
    /\ master' = NoNode /\ client' = NoNode
    /\ node_name' = ""
    /\ pos' = NoPos
    /\ UNCHANGED <<settings, environment_name, heap, calls>>

(* ---- specifications --------------------------------------------------- *)
Build ==
    \/ NewEnvironment
    \/ NewInternal \/ AppendInternal
    \/ NewPrivate \/ AppendPrivate
    \/ NewPublic \/ AppendPublic
    \/ DescribeMaster \/ AppendMaster
    \/ ForKeystones \/ DescribeKeystone \/ AppendKeystone
    \/ ForStorages \/ DescribeStorage \/ AppendStorage
    \/ ForProxies \/ DescribeProxy \/ AppendProxy
    \/ Return

Next == Call \/ Build

Spec == Init /\ [][Next]_vars

\* The body of describe_environment is straight-line synchronous code: once
\* called, each enabled statement runs.  The caller is not obliged to call.
FairSpec == Spec /\ WF_vars(Build)

(* ---- vocabulary of the properties -------------------------------------- *)
Returned == pc = "idle" /\ results # <<>>

LastResult == results[Len(results)]

\* The Network objects an environment's networks collection refers to.
NetworkView(env) == [i \in 1..Len(env.networks) |-> heap[env.networks[i]]]

NodeNameSeq(env) == [i \in 1..Len(env.nodes) |-> env.nodes[i].name]

CallNameSeq == [i \in 1..Len(calls) |-> calls[i].name]

SettingsNames == settings.keystones \o settings.storages \o settings.proxies

ExpectedNodeNames == <<"master">> \o SettingsNames

ExpectedNetworks ==
    << [name |-> "internal", dhcp_server |-> TRUE],
       [name |-> "private", dhcp_server |-> FALSE],
       [name |-> "public", dhcp_server |-> TRUE] >>

Occurrences(seq, x) == Cardinality({i \in 1..Len(seq) : seq[i] = x})

AllNames == KeystoneNames \cup StorageNames \cup ProxyNames \cup {"master"}

\* b is a, or a with one element added at the end.
Extends(a, b) ==
    \/ b = a
    \/ /\ Len(b) = Len(a) + 1
       /\ \A i \in 1..Len(a) : b[i] = a[i]

\* The networks a node's interfaces refer to, in interface order.
NodeNetworks(node) == [i \in 1..Len(node.interfaces) |-> node.interfaces[i].network]

\* Every environment of the state: the returned ones and the one being built.
Environments == {results[i] : i \in 1..Len(results)} \cup
                (IF pc = "idle" THEN {} ELSE {environment})

(* ---- C1 ---------------------------------------------------------------- *)
\* C1: every Environment returned by describe_environment holds exactly three
\* networks, named internal, private, public in that order, with DHCP flags
\* TRUE, FALSE, TRUE.
C1_ThreeNetworks ==
    \A i \in 1..Len(results) : NetworkView(results[i]) = ExpectedNetworks

C1_Witness ==
    /\ Returned
    /\ settings.keystones # <<>> /\ settings.storages # <<>> /\ settings.proxies # <<>>
    /\ Len(LastResult.networks) = 3

(* ---- C2 ---------------------------------------------------------------- *)
\* C2: the nodes of a returned Environment are master, then the keystone names,
\* then the storage names, then the proxy names, each list in settings order.
C2_NodeOrder ==
    \A i \in 1..Len(results) : NodeNameSeq(results[i]) = ExpectedNodeNames

C2_Witness ==
    /\ Returned
    /\ settings.keystones = <<"keystone-1">>
    /\ settings.storages = <<"storage-1", "storage-2">>
    /\ settings.proxies = <<>>
    /\ NodeNameSeq(LastResult) = <<"master", "keystone-1", "storage-1", "storage-2">>

(* ---- C3 ---------------------------------------------------------------- *)
\* C3: a returned Environment holds exactly
\* 1 + len(keystones) + len(storages) + len(proxies) nodes.
C3_NodeCount ==
    \A i \in 1..Len(results) :
        Len(results[i].nodes) =
            1 + Len(settings.keystones) + Len(settings.storages) + Len(settings.proxies)

C3_Witness ==
    /\ Returned
    /\ Len(settings.keystones) = 1 /\ Len(settings.storages) = 2
    /\ Len(settings.proxies) = 1
    /\ Len(LastResult.nodes) = 5

(* ---- C4 ---------------------------------------------------------------- *)
\* C4: every describe_node call of a build is passed the list
\* [internal, private, public], and every node of an environment has three
\* interfaces, one on each of the networks internal, private, public.
C4_AllNodesOnAllNetworks ==
    /\ pc # "idle" =>
         \A i \in 1..Len(calls) : calls[i].networks = <<internal, private, public>>
    /\ \A i \in 1..Len(calls) :
         [k \in 1..Len(calls[i].networks) |-> heap[calls[i].networks[k]].name]
             = <<"internal", "private", "public">>
    /\ \A env \in Environments : \A i \in 1..Len(env.nodes) :
         /\ Len(env.nodes[i].interfaces) = 3
         /\ [k \in 1..3 |-> heap[env.nodes[i].interfaces[k].network].name]
                = <<"internal", "private", "public">>

C4_Witness ==
    /\ Returned
    /\ Len(LastResult.nodes) = 5
    /\ \A i \in 1..5 : Len(LastResult.nodes[i].interfaces) = 3

(* ---- C5 ---------------------------------------------------------------- *)
\* C5: two builds with the same environment name and settings lists return
\* Environments with the same name, the same sequence of network names and DHCP
\* flags and the same sequence of node names.
C5_Deterministic ==
    \A i, j \in 1..Len(results) :
        /\ results[i].name = results[j].name
        /\ NetworkView(results[i]) = NetworkView(results[j])
        /\ NodeNameSeq(results[i]) = NodeNameSeq(results[j])

\* Two builds have returned; their Environments are different objects (they refer
\* to different Network instances) with several nodes each.
C5_Witness ==
    /\ Len(results) = 2
    /\ results[1] # results[2]
    /\ Len(results[2].nodes) = 5

(* ---- C6 ---------------------------------------------------------------- *)
\* C6: no step of describe_environment changes the settings lists or
\* self.environment_name.
C6_InputsUntouched ==
    [][settings' = settings /\ environment_name' = environment_name]_vars

C6_Witness ==
    /\ Returned
    /\ settings.keystones # <<>> /\ settings.storages # <<>> /\ settings.proxies # <<>>
    /\ LastResult.name = environment_name

(* ---- C7 ---------------------------------------------------------------- *)
\* C7: the build rejects no input: a build under way always has a next statement
\* to run; with all three lists empty the result has the three networks and the
\* single node master; and each name appears among the nodes as many times as it
\* is listed (master once more).
C7_NoRejection ==
    /\ pc # "idle" => ENABLED Build
    /\ \A i \in 1..Len(results) :
         /\ SettingsNames = <<>> =>
              /\ NodeNameSeq(results[i]) = <<"master">>
              /\ Len(results[i].networks) = 3
         /\ \A n \in AllNames :
              Occurrences(NodeNameSeq(results[i]), n) =
                  Occurrences(SettingsNames, n) + (IF n = "master" THEN 1 ELSE 0)

\* master listed as a keystone, storage-1 listed twice as a storage and once as a
\* proxy: master is among the nodes twice, storage-1 three times.
C7_Witness ==
    /\ Returned
    /\ settings.keystones = <<"master">>
    /\ settings.storages = <<"storage-1", "storage-1">>
    /\ settings.proxies = <<"storage-1">>
    /\ Occurrences(NodeNameSeq(LastResult), "master") = 2
    /\ Occurrences(NodeNameSeq(LastResult), "storage-1") = 3

(* ---- C8 ---------------------------------------------------------------- *)
\* C8: each step of a build leaves environment.networks and environment.nodes
\* unchanged or adds one element at the end; Network objects and Environments
\* already returned are not changed; the value returned is the environment as
\* built; and no node is described or appended before all three networks are in
\* environment.networks.
C8_AppendOnly ==
    [][ /\ (pc # "idle" /\ pc' # "idle") =>
             /\ Extends(environment.networks, environment'.networks)
             /\ Extends(environment.nodes, environment'.nodes)
             /\ environment.networks # environment'.networks
                  => environment.nodes = environment'.nodes
        /\ (pc # "idle" /\ pc' = "idle") =>
             results' = Append(results, environment)
        /\ \A i \in 1..Len(results) : results'[i] = results[i]
        /\ \A i \in 1..Len(heap) : heap'[i] = heap[i]
        /\ (pc # "idle" /\ (Len(calls') > Len(calls)
                            \/ environment'.nodes # environment.nodes)) =>
             Len(environment.networks) = 3
      ]_vars

C8_Witness ==
    /\ pc = "L22"
    /\ Len(environment.networks) = 3
    /\ Len(environment.nodes) = 4

(* ---- C9 ---------------------------------------------------------------- *)
\* C9: a build that was called returns; when it has returned it has made exactly
\* 1 + len(keystones) + len(storages) + len(proxies) describe_node calls, for
\* master and then for each list entry; and each loop's iterator only moves
\* forward, one entry at a time, never beyond its list.
C9_Terminates ==
    /\ (pc = "L7") ~> (pc = "idle")
    /\ [](Returned =>
            /\ Len(calls) = 1 + Len(settings.keystones) + Len(settings.storages)
                              + Len(settings.proxies)
            /\ CallNameSeq = ExpectedNodeNames)
    /\ [][ pc' # "idle" =>
             /\ pos'.keystones \in {pos.keystones, pos.keystones + 1}
             /\ pos'.storages \in {pos.storages, pos.storages + 1}
             /\ pos'.proxies \in {pos.proxies, pos.proxies + 1}
             /\ pos'.keystones <= Len(settings.keystones)
             /\ pos'.storages <= Len(settings.storages)
             /\ pos'.proxies <= Len(settings.proxies) ]_vars

C9_Witness ==
    /\ Returned
    /\ Len(calls) = 5
    /\ Len(settings.storages) = 2

(* ---- C10 --------------------------------------------------------------- *)
\* C10: a build creates exactly three Network instances whatever the number of
\* nodes; every describe_node call is passed the very instances held in
\* environment.networks, and every node's interfaces refer to exactly those.
C10_SharedNetworks ==
    /\ pc = "idle" => Len(heap) = 3 * Len(results)
    /\ pc # "idle" => Len(heap) = 3 * Len(results) + Len(environment.networks)
                                   + (IF pc \in {"L9", "L11", "L13"} THEN 1 ELSE 0)
    /\ \A i \in 1..Len(calls) :
         calls[i].networks = (IF pc = "idle" THEN LastResult ELSE environment).networks
    /\ \A env \in Environments :
         /\ Cardinality({env.networks[k] : k \in 1..Len(env.networks)})
                = Len(env.networks)
         /\ \A i \in 1..Len(env.nodes) : NodeNetworks(env.nodes[i]) = env.networks
    /\ \A i, j \in 1..Len(results) :
         i # j => {results[i].networks[k] : k \in 1..Len(results[i].networks)}
                    \cap {results[j].networks[k] : k \in 1..Len(results[j].networks)}
                  = {}

C10_Witness ==
    /\ Returned
    /\ Len(LastResult.nodes) = 5
    /\ Len(heap) = 3 * Len(results)
    /\ \A i \in 1..5 : NodeNetworks(LastResult.nodes[i]) = LastResult.networks

====
